---- MODULE Spec2Model ----
(***************************************************************************)
(* Task manager with a rule-based command layer.                            *)
(*                                                                          *)
(* Modelled parts:                                                          *)
(*   lib/tasks.ts            the localStorage-backed task store             *)
(*   lib/tasks-server.ts     in-memory task operations and the mock agent   *)
(*                           (mockClaudeResponse, extractTitle, findTask)   *)
(*   lib/claude/executeTools.ts   the store-backed tool executor            *)
(*   app/api/claude/agent/route.ts   store-backed agent endpoint            *)
(*   app/api/claude/tools/route.ts   tool endpoint and in-memory agent      *)
(*                                   endpoint                               *)
(*                                                                          *)
(* JavaScript strings are TLA+ strings.  Three characters of the source     *)
(* lie outside ASCII and are written with one-character stand-ins that      *)
(* occur nowhere else: CheckMark, Circle and Wastebasket below.             *)
(***************************************************************************)
EXTENDS Integers, Sequences, FiniteSets, TLC

(***************************************************************************)
(* Bounds of the model                                                      *)
(***************************************************************************)
\* largest clock value (Date.now()) the model reaches
MaxClock == 2
\* longest list of invocations handed to a tool loop
MaxBatch == 3
\* most tasks the browser store holds before the model stops adding
MaxStore == 2

(***************************************************************************)
(* Characters and strings                                                   *)
(***************************************************************************)
CheckMark == "^"
Circle == "~"
Wastebasket == "%"

\* The({e(v) : v \in {x}}) is e(x) with x evaluated once and named v
The(S) == CHOOSE v \in S : TRUE

Char(s, i) == SubSeq(s, i, i)

SetMax(S) == The({CHOOSE x \in T : \A y \in T : y <= x : T \in {S}})
SetMin(S) == The({CHOOSE x \in T : \A y \in T : x <= y : T \in {S}})

\* the regular expression class \s and the characters String.prototype.trim strips
IsSpace(c) == c \in {" ", "\t", "\n", "\r", "\f"}

UpperCaseLetters == "ABCDEFGHIJKLMNOPQRSTUVWXYZ"
LowerCaseLetters == "abcdefghijklmnopqrstuvwxyz"

LowerChar(c) ==
  The({IF \E i \in 1..26 : Char(UpperCaseLetters, i) = d
       THEN Char(LowerCaseLetters, CHOOSE i \in 1..26 : Char(UpperCaseLetters, i) = d)
       ELSE d : d \in {c}})

RECURSIVE LowerFrom(_, _)
LowerFrom(s, i) ==
  IF i > Len(s) THEN ""
  ELSE The({LowerChar(Char(s, i)) \o LowerFrom(s, j) : j \in {i + 1}})

\* String.prototype.toLowerCase
toLowerCase(s) == The({LowerFrom(v, 1) : v \in {s}})

\* a trim that leaves the string as it is
keepWhitespace(s) == s

\* String.prototype.trim
trim(s) ==
  The({IF keep = {} THEN "" ELSE SubSeq(v, SetMin(keep), SetMax(keep)) :
         <<v, keep>> \in {<<u, {i \in 1..Len(u) : ~IsSpace(Char(u, i))}>> : u \in {s}}})

\* String.prototype.includes
Includes(s, sub) ==
  \E v \in {s}, w \in {sub} :
    \E i \in 1..(Len(v) - Len(w) + 1) : SubSeq(v, i, i + Len(w) - 1) = w

(***************************************************************************)
(* JavaScript values carried by an invocation's input fields                *)
(***************************************************************************)
Str(s) == [t |-> "string", v |-> s]
Num(s) == [t |-> "number", v |-> s]
Undefined == [t |-> "undefined", v |-> ""]

\* ToBoolean of a field value
Truthy(j) == \/ j.t = "string" /\ j.v # ""
             \/ j.t = "number" /\ j.v # "0"

\* a type test that lets a number pass for a string
IsStringOrNumber(j) == j.t \in {"string", "number"}

\* typeof j === 'string'
IsString(j) == j.t = "string"

(***************************************************************************)
(* extractTitle: the two regular expressions, matched as a backtracking     *)
(* matcher does: leftmost start, greedy quantifiers longest first, the lazy *)
(* capture shortest first.  s is the subject, p a position in it.           *)
(***************************************************************************)
NoMatch == [ok |-> FALSE, cap |-> ""]
Match(c) == [ok |-> TRUE, cap |-> c]

\* ['""]
IsQuoteChar(c) == c \in {"'", "\""}
\* [^'""\n]
IsTitleChar(c) == ~IsQuoteChar(c) /\ c # "\n"

\* number of consecutive \s characters of s from position p on
WsRun(s, p) ==
  SetMax({k \in 0..(Len(s) - p + 1) : \A j \in 0..(k - 1) : IsSpace(Char(s, p + j))})

\* (?:\s|$|\.) at position p
Terminator1(s, p) ==
  \/ p = Len(s) + 1
  \/ p <= Len(s) /\ (IsSpace(Char(s, p)) \/ Char(s, p) = ".")

\* ['""]?(?:\s|$|\.) at position p
Tail1(s, p) ==
  \/ p <= Len(s) /\ IsQuoteChar(Char(s, p)) /\ Terminator1(s, p + 1)
  \/ Terminator1(s, p)

\* ([^'""\n]+?) starting at cs, followed by the tail: the shortest capture
Capture1(s, cs) ==
  The({IF lens = {} THEN NoMatch ELSE Match(SubSeq(s, cs, cs + SetMin(lens) - 1)) :
         lens \in {{n \in 1..(Len(s) - cs + 1) :
                      /\ \A j \in 0..(n - 1) : IsTitleChar(Char(s, cs + j))
                      /\ Tail1(s, cs + n)}}})

\* ['""]? before the capture: with the quote first, then without
OptQuote1(s, p) ==
  The({IF withQuote.ok THEN withQuote ELSE Capture1(s, p) :
         withQuote \in {IF p <= Len(s) /\ IsQuoteChar(Char(s, p))
                        THEN Capture1(s, p + 1) ELSE NoMatch}})

\* does the literal w (lower case) occur at p, ignoring case (flag i)
LiteralAt(s, p, w) ==
  /\ p + Len(w) - 1 <= Len(s)
  /\ toLowerCase(SubSeq(s, p, p + Len(w) - 1)) = w

\* the first match of K(p + k) over k = most, most - 1, ..., 1; NoMatch if none
LongestFirst(p, most, K(_)) ==
  The({IF ks = {} THEN NoMatch ELSE The({K(p + k) : k \in {SetMax(ks)}}) :
         ks \in {{k \in 1..most : K(p + k).ok}}})

\* (?:w\s+)? followed by the rest K: with the group first, then without
OptWord(s, p, w, K(_)) ==
  The({IF withWord.ok THEN withWord ELSE K(p) :
         withWord \in {IF LiteralAt(s, p, w)
                       THEN The({LongestFirst(q, WsRun(s, q), K) : q \in {p + Len(w)}})
                       ELSE NoMatch}})

AfterTask(s, p) == OptWord(s, p, "task", LAMBDA q : OptQuote1(s, q))
AfterA(s, p) == OptWord(s, p, "a", LAMBDA q : AfterTask(s, q))

\* \s+ after the verb, then the rest
AfterVerb(s, p) == LongestFirst(p, WsRun(s, p), LAMBDA q : AfterA(s, q))

\* (?:add|create) at position i, then the rest
VerbAt(s, i) ==
  The({IF afterAdd.ok THEN afterAdd
       ELSE IF LiteralAt(s, i, "create") THEN AfterVerb(s, i + 6)
       ELSE NoMatch :
         afterAdd \in {IF LiteralAt(s, i, "add") THEN AfterVerb(s, i + 3) ELSE NoMatch}})

\* the match at the leftmost position where M matches
Leftmost(s, M(_)) ==
  The({IF starts = {} THEN NoMatch ELSE The({M(i) : i \in {SetMin(starts)}}) :
         starts \in {{i \in 1..Len(s) : M(i).ok}}})

\* /(?:add|create)\s+(?:a\s+)?(?:task\s+)?['""]?([^'""\n]+?)['""]?(?:\s|$|\.)/i
Pattern1(s) == Leftmost(s, LAMBDA i : VerbAt(s, i))

\* ['""]([^'""\n]+?)['""](?:\s|$) from the quote at position i
QuotedAt(s, i) ==
  The({IF IsQuoteChar(Char(s, i)) /\ lens # {}
       THEN Match(SubSeq(s, i + 1, i + SetMin(lens)))
       ELSE NoMatch :
         lens \in {{n \in 1..(Len(s) - i) :
                      /\ \A j \in 1..n : IsTitleChar(Char(s, i + j))
                      /\ i + n + 1 <= Len(s) /\ IsQuoteChar(Char(s, i + n + 1))
                      /\ \/ i + n + 2 = Len(s) + 1
                         \/ i + n + 2 <= Len(s) /\ IsSpace(Char(s, i + n + 2))}}})

\* /['""]([^'""\n]+?)['""](?:\s|$)/i
Pattern2(s) == Leftmost(s, LAMBDA i : QuotedAt(s, i))

Null == [isNull |-> TRUE, v |-> ""]
Some(s) == [isNull |-> FALSE, v |-> s]

\* the first pattern that matches with a non-empty capture decides
extractTitle(msg) ==
  The({IF m1.ok /\ m1.cap # "" THEN Some(trim(m1.cap))
       ELSE The({IF m2.ok /\ m2.cap # "" THEN Some(trim(m2.cap)) ELSE Null :
                   m2 \in {Pattern2(s)}}) :
         <<s, m1>> \in {<<u, Pattern1(u)>> : u \in {msg}}})

(***************************************************************************)
(* Tasks                                                                    *)
(***************************************************************************)
\* `task-${Date.now()}`
TaskId(clock) == "task-" \o ToString(clock)

\* new task built by addTaskServer / addTask: Date.now() is read twice
NewTask(title, t1, t2) ==
  [id |-> TaskId(t1), title |-> title, completed |-> FALSE, createdAt |-> t2]

\* a lookup that falls back to the first task when none carries the identifier
FindIndexOrFirst(tasks, taskId) ==
  LET hits == {i \in 1..Len(tasks) : taskId.t = "string" /\ tasks[i].id = taskId.v}
  IN IF hits # {} THEN SetMin(hits) ELSE IF tasks = <<>> THEN 0 ELSE 1

\* tasks.find(t => t.id === taskId): index of the first such task, 0 if none
FindIndex(tasks, taskId) ==
  LET hits == {i \in 1..Len(tasks) : taskId.t = "string" /\ tasks[i].id = taskId.v}
  IN IF hits = {} THEN 0 ELSE SetMin(hits)

addTaskServer(tasks, title, t1, t2) ==
  [task |-> NewTask(title, t1, t2), tasks |-> <<NewTask(title, t1, t2)>> \o tasks]

toggleTaskServer(tasks, taskId) ==
  LET i == FindIndex(tasks, taskId)
  IN IF i = 0 THEN tasks
     ELSE [tasks EXCEPT ![i].completed = ~tasks[i].completed]

\* a delete that removes only the first task carrying the identifier
deleteFirstMatchOnly(tasks, taskId) ==
  LET i == FindIndex(tasks, taskId)
  IN IF i = 0 THEN tasks ELSE SubSeq(tasks, 1, i - 1) \o SubSeq(tasks, i + 1, Len(tasks))

deleteTaskServer(tasks, taskId) ==
  SelectSeq(tasks, LAMBDA t : ~(taskId.t = "string" /\ t.id = taskId.v))

(***************************************************************************)
(* lib/tasks.ts: the store kept in the browser's localStorage.  A storage   *)
(* item is absent until the first save; where there is no window the store  *)
(* reads as empty and a save does nothing.                                  *)
(***************************************************************************)
NoItem == [present |-> FALSE, tasks |-> <<>>]
Item(tasks) == [present |-> TRUE, tasks |-> tasks]

\* a read that finds a task whatever the environment
getTasksNeverEmpty(hasWindow, storage) == <<NewTask(Str("Buy milk"), 0, 0)>>

getTasks(hasWindow, storage) ==
  IF ~hasWindow THEN <<>>
  ELSE IF storage.present THEN storage.tasks ELSE <<>>

saveTasks(hasWindow, storage, tasks) ==
  IF ~hasWindow THEN storage ELSE Item(tasks)

\* returns the created task and the storage after the call
addTask(hasWindow, storage, title, t1, t2) ==
  [task |-> NewTask(title, t1, t2),
   storage |-> saveTasks(hasWindow, storage,
                         <<NewTask(title, t1, t2)>> \o getTasks(hasWindow, storage))]

toggleTask(hasWindow, storage, id) ==
  LET tasks == getTasks(hasWindow, storage)
      i == FindIndex(tasks, id)
  IN IF i = 0 THEN storage
     ELSE saveTasks(hasWindow, storage,
                    [tasks EXCEPT ![i].completed = ~tasks[i].completed])

deleteTask(hasWindow, storage, id) ==
  saveTasks(hasWindow, storage,
            SelectSeq(getTasks(hasWindow, storage),
                      LAMBDA t : ~(id.t = "string" /\ t.id = id.v)))

(***************************************************************************)
(* Invocations and the mock agent (mockClaudeResponse)                      *)
(***************************************************************************)
NoInput == [defined |-> FALSE, title |-> Undefined, task_id |-> Undefined]
\* an add input that lacks the title
TitleInputWithoutTitle(title) == [defined |-> TRUE, title |-> Undefined, task_id |-> Undefined]

TitleInput(title) == [defined |-> TRUE, title |-> title, task_id |-> Undefined]
IdInput(id) == [defined |-> TRUE, title |-> Undefined, task_id |-> id]

ToolCall(name, input) == [name |-> name, input |-> input]

AgentResult(response, toolCalls) == [response |-> response, toolCalls |-> toolCalls]

\* findTask(reference) over the tasks the agent read; 0 stands for null
findTask(reference, tasks) ==
  LET ref == toLowerCase(reference)
      hits == {i \in 1..Len(tasks) : Includes(toLowerCase(tasks[i].title.v), ref)}
  IN IF Includes(ref, "first") THEN 1
     ELSE IF Includes(ref, "last") THEN Len(tasks)
     ELSE IF hits = {} THEN 0 ELSE SetMin(hits)

\* the task a complete or delete utterance refers to (index into tasks)
TargetIndex(userMessage, message, tasks) ==
  LET titleMatch == extractTitle(userMessage)
      byName == IF ~titleMatch.isNull /\ titleMatch.v # ""
                THEN findTask(titleMatch.v, tasks)
                ELSE 0
      chosen == IF Includes(message, "first") THEN 1
                ELSE IF Includes(message, "last") THEN Len(tasks)
                ELSE byName
  IN IF chosen = 0 THEN 1 ELSE chosen

IsAddIntent(message) == Includes(message, "add") \/ Includes(message, "create")

IsCompleteIntent(message) ==
  \/ Includes(message, "complete")
  \/ Includes(message, "done")
  \/ Includes(message, "finish")
  \/ Includes(message, "mark")
  \/ Includes(message, CheckMark)

IsDeleteIntent(message) == Includes(message, "delete") \/ Includes(message, "remove")

\* a list rule that no message matches
NeverListIntent(message) == FALSE

IsListIntent(message) ==
  \/ Includes(message, "show")
  \/ Includes(message, "list")
  \/ Includes(message, "what")
  \/ Includes(message, "how many")
  \/ Includes(message, "view")
  \/ Includes(message, "display")

NeedTitleReply ==
  "I'd like to add a task, but I need a title. What should the task be called?"
NothingToCompleteReply == "You don't have any tasks to complete!"
NothingToDeleteReply == "You don't have any tasks to delete!"
NoTasksReply == "You have no tasks yet. Would you like me to add some?"
\* no reply at all
NoReply == ""

UsageReply ==
  "I can help you manage tasks! Try asking me to:\n"
  \o "- Add a task (e.g., 'Add Buy milk')\n"
  \o "- Complete a task (e.g., 'Mark the first task done')\n"
  \o "- Delete a task (e.g., 'Delete that')\n"
  \o "- Show my tasks (e.g., 'What tasks do I have?')"

AddedReply(title) == CheckMark \o " I've added \"" \o title \o "\" to your tasks."
MarkedReply(title) == CheckMark \o " Marked \"" \o title \o "\" as complete."
DeletedReply(title) == Wastebasket \o " Deleted \"" \o title \o "\"."

CountCompleted(tasks) == Cardinality({i \in 1..Len(tasks) : tasks[i].completed})

RECURSIVE TaskLines(_, _)
TaskLines(tasks, i) ==
  IF i > Len(tasks) THEN ""
  ELSE (IF i > 1 THEN "\n" ELSE "")
       \o (IF tasks[i].completed THEN CheckMark ELSE Circle)
       \o " " \o tasks[i].title.v
       \o TaskLines(tasks, i + 1)

ListReply(tasks) ==
  "You have **" \o ToString(Len(tasks)) \o " tasks** ("
  \o ToString(Len(tasks) - CountCompleted(tasks)) \o " pending, "
  \o ToString(CountCompleted(tasks)) \o " done):\n\n" \o TaskLines(tasks, 1)

\* the rules of mockClaudeResponse over the lower-cased trimmed message, the
\* tasks read and the title extracted from the message as typed
Rules(userMessage, message, tasks, title) ==
  LET target == tasks[TargetIndex(userMessage, message, tasks)]
  IN IF IsAddIntent(message)
     THEN IF ~title.isNull /\ title.v # ""
          THEN AgentResult(AddedReply(title.v),
                           <<ToolCall("add_task", TitleInput(Str(title.v)))>>)
          ELSE AgentResult(NeedTitleReply, <<>>)
     ELSE IF IsCompleteIntent(message)
     THEN IF Len(tasks) = 0
          THEN AgentResult(NothingToCompleteReply, <<>>)
          ELSE AgentResult(MarkedReply(target.title.v),
                           <<ToolCall("complete_task", IdInput(Str(target.id)))>>)
     ELSE IF IsDeleteIntent(message)
     THEN IF Len(tasks) = 0
          THEN AgentResult(NothingToDeleteReply, <<>>)
          ELSE AgentResult(DeletedReply(target.title.v),
                           <<ToolCall("delete_task", IdInput(Str(target.id)))>>)
     ELSE IF IsListIntent(message)
     THEN IF Len(tasks) = 0
          THEN AgentResult(NoTasksReply, <<>>)
          ELSE AgentResult(ListReply(tasks), <<>>)
     ELSE AgentResult(UsageReply, <<>>)

\* mockClaudeResponse(userMessage): the tasks are read from the ambient store,
\* so the environment of the call (hasWindow, storage) decides what it sees
mockClaudeResponse(userMessage, hasWindow, storage) ==
  The({Rules(u, message, tasks, title) :
         <<u, message, tasks, title>> \in
           {<<v, trim(toLowerCase(v)), getTasks(hasWindow, storage), extractTitle(v)>> :
              v \in {userMessage}}})

(***************************************************************************)
(* Tool execution                                                           *)
(***************************************************************************)
NoData == [none |-> TRUE]
DeletedData(task) == [title |-> task.title, id |-> task.id]

Failure(error) == [success |-> FALSE, data |-> NoData, error |-> error]
Success(data) == [success |-> TRUE, data |-> data, error |-> ""]

\* an entry of toolResults that does not say which tool it is the result of
ToolResultUnnamed(toolName, r) ==
  [toolName |-> "", success |-> r.success, data |-> r.data, error |-> r.error]

\* one entry of toolResults
ToolResult(toolName, r) ==
  [toolName |-> toolName, success |-> r.success, data |-> r.data, error |-> r.error]

\* an error text that does not say what went wrong
UnnamedError(toolName) == "Unknown error"

UnknownTool(toolName) == "Unknown tool: " \o toolName
NotFound(taskId) == "Task with ID '" \o taskId.v \o "' not found"
\* message of the TypeError raised by reading a field of an undefined input
UndefinedInputError(field) ==
  "Cannot read properties of undefined (reading '" \o field \o "')"

\* message of the TypeError raised by destructuring an undefined input
DestructureError(field) ==
  "Cannot destructure property '" \o field \o "' of 'toolInput' as it is undefined."

\* executeTool(toolName, toolInput) of lib/claude/executeTools.ts, run where
\* hasWindow says whether a window exists: the result and the storage it leaves
executeTool(toolName, toolInput, hasWindow, storage, t1, t2) ==
  LET tasks == getTasks(hasWindow, storage)
      title == toolInput.title
      task_id == toolInput.task_id
      i == FindIndex(tasks, task_id)
      added == addTask(hasWindow, storage, title, t1, t2)
      toggled == toggleTask(hasWindow, storage, task_id)
      j == FindIndex(getTasks(hasWindow, toggled), task_id)
  IN CASE toolName = "add_task" ->
            IF ~toolInput.defined
            THEN [result |-> Failure(DestructureError("title")), storage |-> storage]
            ELSE IF ~Truthy(title) \/ ~IsString(title)
            THEN [result |-> Failure("Title is required and must be a string"),
                  storage |-> storage]
            ELSE [result |-> Success(added.task), storage |-> added.storage]
       [] toolName = "complete_task" ->
            IF ~toolInput.defined
            THEN [result |-> Failure(DestructureError("task_id")), storage |-> storage]
            ELSE IF ~Truthy(task_id) \/ ~IsString(task_id)
            THEN [result |-> Failure("Task ID is required and must be a string"),
                  storage |-> storage]
            ELSE IF i = 0
            THEN [result |-> Failure(NotFound(task_id)), storage |-> storage]
            ELSE [result |-> Success(IF j = 0 THEN NoData
                                     ELSE getTasks(hasWindow, toggled)[j]),
                  storage |-> toggled]
       [] toolName = "delete_task" ->
            IF ~toolInput.defined
            THEN [result |-> Failure(DestructureError("task_id")), storage |-> storage]
            ELSE IF ~Truthy(task_id) \/ ~IsString(task_id)
            THEN [result |-> Failure("Task ID is required and must be a string"),
                  storage |-> storage]
            ELSE IF i = 0
            THEN [result |-> Failure(NotFound(task_id)), storage |-> storage]
            ELSE [result |-> Success(DeletedData(tasks[i])),
                  storage |-> deleteTask(hasWindow, storage, task_id)]
       [] OTHER -> [result |-> Failure(UnknownTool(toolName)), storage |-> storage]

\* one iteration of the tool loop of the in-memory agent endpoint
\* (app/api/claude/tools/route.ts): the result pushed and the collection left
ExecuteInMemory(toolCall, tasks, t1, t2) ==
  LET input == toolCall.input
      title == input.title
      taskId == input.task_id
      i == FindIndex(tasks, taskId)
      added == addTaskServer(tasks, title, t1, t2)
      toggled == toggleTaskServer(tasks, taskId)
  IN CASE toolCall.name = "add_task" ->
            IF ~input.defined
            THEN [result |-> Failure(UndefinedInputError("title")), tasks |-> tasks]
            ELSE IF ~Truthy(title)
            THEN [result |-> Failure("Title is required"), tasks |-> tasks]
            ELSE [result |-> Success(added.task), tasks |-> <<added.task>> \o tasks]
       [] toolCall.name = "complete_task" ->
            IF ~input.defined
            THEN [result |-> Failure(UndefinedInputError("task_id")), tasks |-> tasks]
            ELSE IF ~Truthy(taskId)
            THEN [result |-> Failure("Task ID is required"), tasks |-> tasks]
            ELSE IF i = 0
            THEN [result |-> Failure(NotFound(taskId)), tasks |-> tasks]
            ELSE [result |-> Success(toggled[FindIndex(toggled, taskId)]),
                  tasks |-> toggled]
       [] toolCall.name = "delete_task" ->
            IF ~input.defined
            THEN [result |-> Failure(UndefinedInputError("task_id")), tasks |-> tasks]
            ELSE IF ~Truthy(taskId)
            THEN [result |-> Failure("Task ID is required"), tasks |-> tasks]
            ELSE IF i = 0
            THEN [result |-> Failure(NotFound(taskId)), tasks |-> tasks]
            ELSE [result |-> Success(DeletedData(tasks[i])),
                  tasks |-> deleteTaskServer(tasks, taskId)]
       [] OTHER -> [result |-> Failure(UnknownTool(toolCall.name)), tasks |-> tasks]

(***************************************************************************)
(* Inputs                                                                   *)
(***************************************************************************)
Utterances ==
  {"Add 'Buy milk'", "Add milk", "add", "Add   ", "create and mark done",
   "Clear all completed tasks", "delete all completed", "mark done",
   "Delete the last task", "complete 'dog'", "Delete that task",
   "Show my tasks", "hello"}

\* request bodies: a message may also be empty, missing or not a string
Messages == {Str(u) : u \in Utterances} \cup {Str(""), Num("7"), Undefined}

\* the tasks client collections are built from: two tasks, pending or done
PoolTask(n, title, c) ==
  [id |-> TaskId(n), title |-> Str(title), completed |-> c, createdAt |-> n]

Pool ==
  {PoolTask(0, "Buy milk", c) : c \in BOOLEAN} \cup {PoolTask(1, "Walk dog", c) : c \in BOOLEAN}

DistinctIds(tasks) ==
  \A i, j \in 1..Len(tasks) : i # j => tasks[i].id # tasks[j].id

\* the collections a client sends: well-formed, identifiers pairwise distinct
ClientCollections ==
  UNION {{c \in [1..n -> Pool] : DistinctIds(c)} : n \in 0..Cardinality(Pool)}

\* invocations handed to a tool loop
Invocations ==
  {ToolCall("add_task", TitleInput(Str("Buy milk"))),
   ToolCall("add_task", TitleInput(Str(""))),
   ToolCall("add_task", TitleInput(Num("7"))),
   ToolCall("complete_task", IdInput(Str(TaskId(0)))),
   ToolCall("delete_task", IdInput(Str(TaskId(0)))),
   ToolCall("delete_task", IdInput(Str(TaskId(1)))),
   ToolCall("delete_task", NoInput),
   ToolCall("archive_task", IdInput(Str(TaskId(0))))}

Batches == UNION {[1..n -> Invocations] : n \in 0..MaxBatch}

(***************************************************************************)
(* State                                                                    *)
(***************************************************************************)
VARIABLES
  now,           \* the clock, Date.now()
  localStorage,  \* the storage item 'tasks' of the environment the code runs in
  pageTasks,     \* main page: the tasks state
  mounted,       \* main page: the mounted state
  pc,            \* request handler: "idle", "loop" or "done"
  route,         \* the endpoint handling the request
  message,       \* request body: message
  clientTasks,   \* request body: tasks, as received ([] when absent)
  response,      \* the agent's reply
  toolCalls,     \* the agent's invocations
  next,          \* position of the tool loop in toolCalls
  updatedTasks,  \* the collection threaded through the in-memory tool loop
  toolResults,   \* results pushed so far
  status,        \* HTTP status of the response, 0 before there is one
  error,         \* error field of the response body
  messages,      \* chat page: the messages state
  loading        \* chat page: the loading state

vars == <<now, localStorage, pageTasks, mounted, pc, route, message, clientTasks,
          response, toolCalls, next, updatedTasks, toolResults, status, error,
          messages, loading>>

chatVars == <<messages, loading>>
browserVars == <<localStorage, pageTasks, mounted, chatVars>>
requestVars == <<pc, route, message, clientTasks, response, toolCalls, next,
                 updatedTasks, toolResults, status, error>>

\* an environment in which route handlers, too, find a window
WindowOnServer == TRUE

\* a route handler runs on the server: typeof window === 'undefined'
ServerHasWindow == FALSE
\* the store of a server process that has just started
ServerStorage == NoItem
BrowserHasWindow == TRUE

IdleRequest ==
  /\ pc = "idle" /\ route = "none" /\ message = Undefined /\ clientTasks = <<>>
  /\ response = "" /\ toolCalls = <<>> /\ next = 1 /\ updatedTasks = <<>>
  /\ toolResults = <<>> /\ status = 0 /\ error = ""

Init ==
  /\ now = 0
  /\ localStorage = NoItem
  /\ pageTasks = <<>>
  /\ mounted = FALSE
  /\ messages = <<>>
  /\ loading = FALSE
  /\ IdleRequest

(***************************************************************************)
(* The clock                                                                *)
(***************************************************************************)
Tick ==
  /\ now < MaxClock
  /\ now' = now + 1
  /\ UNCHANGED <<browserVars, requestVars>>

\* the values a second Date.now() may return after a first returned now
LaterReads == {t \in {now, now + 1} : t <= MaxClock}

(***************************************************************************)
(* Agent endpoint, in-memory (app/api/claude/tools/route.ts, second POST)   *)
(***************************************************************************)
RejectMessage(r, m) ==
  /\ pc' = "done" /\ route' = r /\ message' = m
  /\ status' = 400 /\ error' = "Message is required and must be a string"
  /\ UNCHANGED <<clientTasks, response, toolCalls, next, updatedTasks, toolResults>>

\* the request body holds the message m and a task collection
ReceiveAgentMemory(m) ==
  /\ pc = "idle"
  /\ IF ~Truthy(m) \/ ~IsString(m)
     THEN RejectMessage("agentMemory", m)
     ELSE \E r \in {mockClaudeResponse(m.v, ServerHasWindow, localStorage)} :
          \E tasks \in ClientCollections :
             /\ pc' = "loop" /\ route' = "agentMemory" /\ message' = m
             /\ clientTasks' = tasks
             /\ response' = r.response
             /\ toolCalls' = r.toolCalls
             /\ updatedTasks' = tasks
             /\ toolResults' = <<>>
             /\ next' = 1
             /\ UNCHANGED <<status, error>>
  /\ UNCHANGED <<now, browserVars>>

\* a tool loop that applies every invocation to the collection as received
StepAgentMemoryUnthreaded ==
  /\ pc = "loop" /\ route = "agentMemory" /\ next <= Len(toolCalls)
  /\ \E t2 \in LaterReads :
       LET r == ExecuteInMemory(toolCalls[next], clientTasks, now, t2)
       IN /\ updatedTasks' = r.tasks
          /\ toolResults' = Append(toolResults, ToolResult(toolCalls[next].name, r.result))
          /\ now' = IF toolCalls[next].name = "add_task" /\ r.result.success
                    THEN t2 ELSE now
  /\ next' = next + 1
  /\ UNCHANGED <<browserVars, pc, route, message, clientTasks, response, toolCalls,
                 status, error>>

\* a tool loop that leaves the batch at the first failed invocation
StepAgentMemoryStopOnFailure ==
  /\ pc = "loop" /\ route = "agentMemory" /\ next <= Len(toolCalls)
  /\ \E t2 \in LaterReads :
       LET r == ExecuteInMemory(toolCalls[next], updatedTasks, now, t2)
       IN /\ updatedTasks' = r.tasks
          /\ toolResults' = Append(toolResults, ToolResult(toolCalls[next].name, r.result))
          /\ now' = IF toolCalls[next].name = "add_task" /\ r.result.success
                    THEN t2 ELSE now
          /\ next' = IF r.result.success THEN next + 1 ELSE Len(toolCalls) + 1
  /\ UNCHANGED <<browserVars, pc, route, message, clientTasks, response, toolCalls,
                 status, error>>

StepAgentMemory ==
  /\ pc = "loop" /\ route = "agentMemory" /\ next <= Len(toolCalls)
  /\ \E t2 \in LaterReads :
       LET r == ExecuteInMemory(toolCalls[next], updatedTasks, now, t2)
       IN /\ updatedTasks' = r.tasks
          /\ toolResults' = Append(toolResults, ToolResult(toolCalls[next].name, r.result))
          /\ now' = IF toolCalls[next].name = "add_task" /\ r.result.success
                    THEN t2 ELSE now
  /\ next' = next + 1
  /\ UNCHANGED <<browserVars, pc, route, message, clientTasks, response, toolCalls,
                 status, error>>

(***************************************************************************)
(* Agent endpoint, store-backed (app/api/claude/agent/route.ts)             *)
(***************************************************************************)
ReceiveAgentStore(m) ==
  /\ pc = "idle" \/ (pc = "sent" /\ route = "agentStore" /\ m = message)
  /\ IF ~Truthy(m) \/ ~IsString(m)
     THEN RejectMessage("agentStore", m)
     ELSE \E r \in {mockClaudeResponse(m.v, ServerHasWindow, localStorage)} :
             /\ pc' = "loop" /\ route' = "agentStore" /\ message' = m
             /\ response' = r.response
             /\ toolCalls' = r.toolCalls
             /\ toolResults' = <<>>
             /\ next' = 1
             /\ UNCHANGED <<clientTasks, updatedTasks, status, error>>
  /\ UNCHANGED <<now, browserVars>>

StepAgentStore ==
  /\ pc = "loop" /\ route = "agentStore" /\ next <= Len(toolCalls)
  /\ \E t2 \in LaterReads :
       LET r == executeTool(toolCalls[next].name, toolCalls[next].input,
                            ServerHasWindow, localStorage, now, t2)
       IN /\ toolResults' = Append(toolResults, ToolResult(toolCalls[next].name, r.result))
          /\ localStorage' = r.storage
          /\ now' = IF toolCalls[next].name = "add_task" /\ r.result.success
                    THEN t2 ELSE now
  /\ next' = next + 1
  /\ UNCHANGED <<pageTasks, mounted, chatVars, pc, route, message, clientTasks,
                 response, toolCalls, updatedTasks, status, error>>

\* a response whose reply is derived again from the results of execution
RespondAgentRederived ==
  /\ pc = "loop" /\ next > Len(toolCalls)
  /\ pc' = "done" /\ status' = 200
  /\ response' = IF \E i \in 1..Len(toolResults) : ~toolResults[i].success
                 THEN "Something went wrong."
                 ELSE response
  /\ UNCHANGED <<now, browserVars, route, message, clientTasks, toolCalls,
                 next, updatedTasks, toolResults, error>>

\* the loop is over: the response is assembled and returned
RespondAgent ==
  /\ pc = "loop" /\ next > Len(toolCalls)
  /\ pc' = "done" /\ status' = 200
  /\ UNCHANGED <<now, browserVars, route, message, clientTasks, response, toolCalls,
                 next, updatedTasks, toolResults, error>>

(***************************************************************************)
(* Tool endpoint (app/api/claude/tools/route.ts, first POST)                *)
(***************************************************************************)
ToolEndpoint(toolCall) ==
  /\ pc = "idle"
  /\ pc' = "done" /\ route' = "tools"
  /\ IF toolCall.name = "" \/ ~toolCall.input.defined
     THEN /\ status' = 400 /\ error' = "Missing tool_name or tool_input"
          /\ UNCHANGED <<now, localStorage, toolCalls, toolResults>>
     ELSE \E t2 \in LaterReads :
            LET r == executeTool(toolCall.name, toolCall.input,
                                 ServerHasWindow, localStorage, now, t2)
            IN /\ toolCalls' = <<toolCall>>
               /\ toolResults' = <<ToolResult(toolCall.name, r.result)>>
               /\ localStorage' = r.storage
               /\ status' = 200
               /\ now' = IF toolCall.name = "add_task" /\ r.result.success
                         THEN t2 ELSE now
               /\ UNCHANGED error
  /\ UNCHANGED <<pageTasks, mounted, chatVars, message, clientTasks, response, next,
                 updatedTasks>>

\* the response has been sent; the handler is ready for the next request
Deliver ==
  /\ pc = "done"
  /\ pc' = "idle" /\ route' = "none" /\ message' = Undefined /\ clientTasks' = <<>>
  /\ response' = "" /\ toolCalls' = <<>> /\ next' = 1 /\ updatedTasks' = <<>>
  /\ toolResults' = <<>> /\ status' = 0 /\ error' = ""
  /\ UNCHANGED <<now, browserVars>>

(***************************************************************************)
(* Main page (app/page.tsx) over the browser store                          *)
(***************************************************************************)
\* the longest title the add tool's input schema describes
MaxTitleLength == 200

RECURSIVE Repeat(_, _)
Repeat(s, n) ==
  IF n = 0 THEN ""
  ELSE IF n % 2 = 1 THEN s \o Repeat(s, n - 1)
  ELSE The({h \o h : h \in {Repeat(s, n \div 2)}})

\* a text one character longer than that, as typed into the add form
LongTitle == Repeat("x", MaxTitleLength + 1)

PageInputs == {"Buy milk", "Walk dog", "  ", LongTitle}

Mount ==
  /\ ~mounted
  /\ pageTasks' = getTasks(BrowserHasWindow, localStorage)
  /\ mounted' = TRUE
  /\ UNCHANGED <<now, localStorage, requestVars, chatVars>>

handleAdd(input) ==
  /\ mounted
  /\ Len(getTasks(BrowserHasWindow, localStorage)) < MaxStore
  /\ IF trim(input) = ""
     THEN UNCHANGED <<now, localStorage, pageTasks>>
     ELSE \E t2 \in LaterReads :
            LET r == addTask(BrowserHasWindow, localStorage, Str(input), now, t2)
            IN /\ localStorage' = r.storage
               /\ pageTasks' = <<r.task>> \o pageTasks
               /\ now' = t2
  /\ UNCHANGED <<mounted, requestVars, chatVars>>

\* a toggle that flips the row of the page state and saves nothing
handleToggleUnsaved(id) ==
  /\ mounted
  /\ pageTasks' = toggleTaskServer(pageTasks, Str(id))
  /\ UNCHANGED <<now, localStorage, mounted, requestVars, chatVars>>

handleToggle(id) ==
  /\ mounted
  /\ localStorage' = toggleTask(BrowserHasWindow, localStorage, Str(id))
  /\ pageTasks' = getTasks(BrowserHasWindow, localStorage')
  /\ UNCHANGED <<now, mounted, requestVars, chatVars>>

handleDelete(id) ==
  /\ mounted
  /\ localStorage' = deleteTask(BrowserHasWindow, localStorage, Str(id))
  /\ pageTasks' = getTasks(BrowserHasWindow, localStorage')
  /\ UNCHANGED <<now, mounted, requestVars, chatVars>>

\* the identifiers of the rows the page shows
ShownIds == {pageTasks[i].id : i \in 1..Len(pageTasks)}

(***************************************************************************)
(* Chat page (app/agent/page.tsx) talking to the store-backed agent         *)
(***************************************************************************)
\* the messages the chat page accepts before the model stops it
MaxMessages == 4

ChatInputs == {"Add milk", "Complete milk", "  "}

UserMessage(content) == [role |-> "user", content |-> content]
AssistantMessage(content) == [role |-> "assistant", content |-> content]

ErrorText == "Sorry, something went wrong. Please try again."

\* a submit that is accepted although a request is in flight
handleSendMessageWhileLoading(input) ==
  /\ IF trim(input) = ""
     THEN UNCHANGED vars
     ELSE /\ Len(messages) < MaxMessages
          /\ messages' = Append(messages, UserMessage(input))
          /\ loading' = TRUE
          /\ UNCHANGED <<now, localStorage, pageTasks, mounted, requestVars>>

\* the form is submitted: up to the await of fetch
handleSendMessage(input) ==
  /\ IF trim(input) = "" \/ loading
     THEN UNCHANGED vars
     ELSE /\ pc = "idle"
          /\ Len(messages) < MaxMessages
          /\ messages' = Append(messages, UserMessage(input))
          /\ loading' = TRUE
          /\ pc' = "sent" /\ route' = "agentStore" /\ message' = Str(input)
          /\ UNCHANGED <<now, localStorage, pageTasks, mounted, clientTasks, response,
                         toolCalls, next, updatedTasks, toolResults, status, error>>

\* the request handler is ready for the next request
ResetRequest ==
  /\ pc' = "idle" /\ route' = "none" /\ message' = Undefined /\ clientTasks' = <<>>
  /\ response' = "" /\ toolCalls' = <<>> /\ next' = 1 /\ updatedTasks' = <<>>
  /\ toolResults' = <<>> /\ status' = 0 /\ error' = ""

\* the response arrives: the rest of try, or catch when it is not ok, then finally
ReceiveResponse ==
  /\ pc = "done" /\ loading
  /\ messages' = Append(messages, AssistantMessage(IF status = 200 THEN response
                                                    ELSE ErrorText))
  /\ loading' = FALSE
  /\ ResetRequest
  /\ UNCHANGED <<now, localStorage, pageTasks, mounted>>

\* fetch rejects, the request never reaches the handler: catch, then finally
FetchFails ==
  /\ pc = "sent" /\ loading
  /\ messages' = Append(messages, AssistantMessage(ErrorText))
  /\ loading' = FALSE
  /\ ResetRequest
  /\ UNCHANGED <<now, localStorage, pageTasks, mounted>>

(***************************************************************************)
(* Specifications                                                           *)
(***************************************************************************)
\* the command layer: requests to the three endpoints
Next ==
  \/ Tick
  \/ \E m \in Messages : ReceiveAgentMemory(m)
  \/ StepAgentMemory
  \/ \E m \in Messages : ReceiveAgentStore(m)
  \/ StepAgentStore
  \/ RespondAgent
  \/ \E c \in Invocations \cup {ToolCall("", NoInput)} : ToolEndpoint(c)
  \/ Deliver

Spec == Init /\ [][Next]_vars

\* the task list page over the browser store
NextStore ==
  \/ Tick
  \/ Mount
  \/ \E input \in PageInputs : handleAdd(input)
  \/ \E id \in ShownIds : handleToggle(id)
  \/ \E id \in ShownIds : handleDelete(id)

SpecStore == Init /\ [][NextStore]_vars

\* the chat page and the task list page of one browser, and the agent
\* endpoint the chat page posts to
ServerStep ==
  \/ (pc = "sent" /\ ReceiveAgentStore(message))
  \/ StepAgentStore
  \/ RespondAgent

NextChat ==
  \/ Mount
  \/ handleAdd("Buy milk")
  \/ \E input \in ChatInputs : handleSendMessage(input)
  \/ ServerStep
  \/ ReceiveResponse
  \/ FetchFails

SpecChat == Init /\ [][NextChat]_vars

\* the handler runs to its end and the promise of fetch settles
SpecChatFair ==
  SpecChat /\ WF_vars(ServerStep) /\ WF_vars(ReceiveResponse \/ FetchFails)

\* the tool loops of the two agent endpoints over any list of invocations
InitExec ==
  /\ now \in 0..MaxClock
  /\ localStorage = NoItem /\ pageTasks = <<>> /\ mounted = FALSE
  /\ messages = <<>> /\ loading = FALSE
  /\ pc = "loop"
  /\ route \in {"agentMemory", "agentStore"}
  /\ message = Str("(batch)")
  /\ clientTasks \in (IF route = "agentMemory" THEN ClientCollections ELSE {<<>>})
  /\ response = "reply"
  /\ toolCalls \in Batches
  /\ next = 1
  /\ updatedTasks = clientTasks
  /\ toolResults = <<>>
  /\ status = 0 /\ error = ""

NextExec ==
  \/ StepAgentMemory
  \/ StepAgentStore
  \/ RespondAgent

SpecExec == InitExec /\ [][NextExec]_vars

\* texts put together from a head, a middle and a tail: verbs of every rule,
\* articles, index words, quotes, white space, periods and line breaks
Heads == {"", "Add", "create", "complete", "Delete", "remove all", "clear", "show", "hello"}
Middles == {"", " ", "   ", " a task ", " the first ", " '"}
Tails == {"", "milk", "Buy milk'", "dog\" now", "done.", "\n"}
Texts == {h \o m \o t : h \in Heads, m \in Middles, t \in Tails}

\* the resolver applied to any text by either agent endpoint: the request's
\* message is drawn first, one request is received and resolved
InitResolve ==
  /\ now = 0
  /\ localStorage = NoItem /\ pageTasks = <<>> /\ mounted = FALSE
  /\ messages = <<>> /\ loading = FALSE
  /\ pc = "idle" /\ route = "none"
  /\ message \in Messages \cup {Str(t) : t \in Texts}
  /\ clientTasks = <<>> /\ response = "" /\ toolCalls = <<>>
  /\ next = 1 /\ updatedTasks = <<>> /\ toolResults = <<>>
  /\ status = 0 /\ error = ""

NextResolve ==
  \/ ReceiveAgentMemory(message)
  \/ ReceiveAgentStore(message)

SpecResolve == InitResolve /\ [][NextResolve]_vars

(***************************************************************************)
(* Properties.  The definitions of this section state what is claimed of    *)
(* the program; none of them is part of the program.                        *)
(***************************************************************************)
\* a request has been resolved by the agent (it was not rejected)
ResolvedAny == pc \in {"loop", "done"} /\ status # 400 /\ route \in {"agentMemory", "agentStore"}
\* ... by the endpoint that receives a task collection with the message
Resolved == ResolvedAny /\ route = "agentMemory"

Lowered(userMessage) == trim(toLowerCase(userMessage))

Prefix(s, p) == Len(s) >= Len(p) /\ SubSeq(s, 1, Len(p)) = p

CompletedOf(tasks) == SelectSeq(tasks, LAMBDA t : t.completed)
PendingOf(tasks) == SelectSeq(tasks, LAMBDA t : ~t.completed)
DeleteCalls(tasks) ==
  [i \in 1..Len(tasks) |-> ToolCall("delete_task", IdInput(Str(tasks[i].id)))]

\* a clearing verb together with a completion qualifier
IsClearCompleted(msg) ==
  /\ Includes(msg, "clear") \/ Includes(msg, "delete all") \/ Includes(msg, "remove all")
  /\ Includes(msg, "completed") \/ Includes(msg, "done")

NothingToClearReply == "You don't have any completed tasks to clear."

\* C1: Bulk-clear completeness.  Resolving a clear-completed utterance over a
\* collection with k completed tasks yields exactly k delete invocations, one
\* per completed task in collection order (none, and the nothing-to-clear
\* reply, when k = 0); after they are executed the collection consists of
\* exactly the original pending tasks in their original order.
C1_BulkClearCompleteness ==
  (Resolved /\ IsClearCompleted(Lowered(message.v))) =>
    /\ toolCalls = DeleteCalls(CompletedOf(clientTasks))
    /\ CompletedOf(clientTasks) = <<>> => response = NothingToClearReply
    /\ pc = "done" => updatedTasks = PendingOf(clientTasks)

\* the rule the claimed priority order selects for a lower-cased trimmed message
ClaimedRule(msg) ==
  IF IsClearCompleted(msg) THEN "bulk-clear"
  ELSE IF IsAddIntent(msg) THEN "add"
  ELSE IF IsCompleteIntent(msg) THEN "complete"
  ELSE IF IsDeleteIntent(msg) THEN "delete"
  ELSE IF IsListIntent(msg) THEN "list"
  ELSE "fallback"

\* the rule whose outcome the agent returned, read off its reply
ObservedRule ==
  IF response = NothingToClearReply \/ Prefix(response, CheckMark \o " Cleared ")
  THEN "bulk-clear"
  ELSE IF response = NeedTitleReply \/ Prefix(response, CheckMark \o " I've added ")
  THEN "add"
  ELSE IF response = NothingToCompleteReply \/ Prefix(response, CheckMark \o " Marked ")
  THEN "complete"
  ELSE IF response = NothingToDeleteReply \/ Prefix(response, Wastebasket \o " Deleted ")
  THEN "delete"
  ELSE IF response = NoTasksReply \/ Prefix(response, "You have **")
  THEN "list"
  ELSE IF response = UsageReply THEN "fallback"
  ELSE "none"

\* C2: Rule priority.  The rules are tested in the order bulk-clear, add,
\* complete, delete, list, fallback and the outcome is that of the first rule
\* whose keywords occur in the lower-cased trimmed input; "delete all
\* completed" resolves as a bulk clear, an input with add/create as an add.
C2_RulePriority ==
  ResolvedAny => ObservedRule = ClaimedRule(Lowered(message.v))

\* the positions of the quotes of u
QuotePositions(u) == {i \in 1..Len(u) : IsQuoteChar(Char(u, i))}

\* the text between the first two quotes of u
QuotedText(u) ==
  LET q1 == SetMin(QuotePositions(u))
      q2 == SetMin(QuotePositions(u) \ {q1})
  IN SubSeq(u, q1 + 1, q2 - 1)

\* position after the word w and the blanks that follow it, p if w is not at p
SkipWord(u, p, w) ==
  IF LiteralAt(u, p, w) /\ WsRun(u, p + Len(w)) > 0
  THEN p + Len(w) + WsRun(u, p + Len(w))
  ELSE p

\* the text after the first of the given verbs (and "a", "task", "the"), up to
\* the next quote, period or end of string; empty if no verb occurs
TextAfterVerb(u, verbs) ==
  LET at == {i \in 1..Len(u) : \E w \in verbs : LiteralAt(u, i, w)}
      v == SetMin(at)
      after == v + SetMax({Len(w) : w \in {x \in verbs : LiteralAt(u, v, x)}})
      start == SkipWord(u, SkipWord(u, SkipWord(u, after + WsRun(u, after), "a"), "the"),
                        "task")
      stops == {i \in start..Len(u) : IsQuoteChar(Char(u, i)) \/ Char(u, i) = "."}
      stop == IF stops = {} THEN Len(u) + 1 ELSE SetMin(stops)
  IN IF at = {} THEN "" ELSE trim(SubSeq(u, start, stop - 1))

PostVerbText(u) == TextAfterVerb(u, {"add", "create"})

\* the title the add rule is claimed to extract
ClaimedTitle(u) ==
  IF Cardinality(QuotePositions(u)) >= 2 THEN QuotedText(u) ELSE PostVerbText(u)

\* C3: Add title extraction.  An add utterance yields exactly one add
\* invocation whose title is the complete quoted text when the title is
\* quoted ("Add 'Buy milk'" gives "Buy milk"), and otherwise the text after the
\* add/create verb up to the next quote, period or end of string.
C3_AddTitleExtraction ==
  (ResolvedAny /\ ClaimedRule(Lowered(message.v)) = "add" /\ ClaimedTitle(message.v) # "") =>
    toolCalls = <<ToolCall("add_task", TitleInput(Str(ClaimedTitle(message.v))))>>

\* a well-formed add invocation
ValidAdd(c) ==
  c.name = "add_task" /\ c.input.defined /\ IsString(c.input.title) /\ c.input.title.v # ""

\* the tool loop of the in-memory endpoint executes invocation next in this step
MemoryStep ==
  pc = "loop" /\ route = "agentMemory" /\ next <= Len(toolCalls) /\ next' = next + 1

IdsOf(tasks) == {tasks[i].id : i \in 1..Len(tasks)}

\* C4: Add execution round-trip.  Executing a valid add invocation with title
\* T on a collection of size n yields a collection of size n+1 whose first
\* element has title T, completed=false and an identifier that no task of the
\* original collection has; the result is success=true carrying the new task.
C4_AddRoundTrip ==
  [][(MemoryStep /\ ValidAdd(toolCalls[next])) =>
       /\ Len(updatedTasks') = Len(updatedTasks) + 1
       /\ updatedTasks'[1].title = toolCalls[next].input.title
       /\ updatedTasks'[1].completed = FALSE
       /\ updatedTasks'[1].id \notin IdsOf(updatedTasks)
       /\ toolResults'[Len(toolResults')].success
       /\ toolResults'[Len(toolResults')].data = updatedTasks'[1]]_vars

\* C5: Identifier uniqueness.  In every state reachable by add, complete and
\* delete operations on the store all task identifiers in the collection are
\* pairwise distinct, also when several adds happen at the same clock value.
C5_IdentifierUniqueness ==
  DistinctIds(getTasks(BrowserHasWindow, localStorage))

\* C7: Default-to-first.  A complete utterance with no target words ("mark
\* done") resolved against a non-empty collection passed with the request
\* yields exactly one complete invocation, for the identifier of the first
\* task of that collection.
C7_DefaultToFirst ==
  (Resolved /\ Lowered(message.v) = "mark done" /\ clientTasks # <<>>) =>
    toolCalls = <<ToolCall("complete_task", IdInput(Str(clientTasks[1].id)))>>

\* the title fragment of a complete or delete utterance: the quoted text, else
\* the text after the verb
ClaimedFragment(u) ==
  IF Cardinality(QuotePositions(u)) >= 2 THEN QuotedText(u)
  ELSE TextAfterVerb(u, {"complete", "finish", "delete", "remove"})

\* the task a complete or delete utterance is claimed to resolve to
ClaimedTarget(u, tasks) ==
  LET hits == {i \in 1..Len(tasks) :
                 Includes(toLowerCase(tasks[i].title.v), toLowerCase(ClaimedFragment(u)))}
  IN IF Includes(Lowered(u), "first") THEN 1
     ELSE IF Includes(Lowered(u), "last") THEN Len(tasks)
     ELSE IF ClaimedFragment(u) # "" /\ hits # {} THEN SetMin(hits)
     ELSE 1

\* C8: Target resolution order.  A complete or delete utterance resolved
\* against a non-empty collection targets the first task if it says "first",
\* else the last task if it says "last", else the first task whose title
\* contains the quoted or post-verb fragment, else the first task; exactly one
\* invocation is emitted for that task's identifier and the reply names its
\* title.
C8_TargetResolutionOrder ==
  (Resolved /\ ClaimedRule(Lowered(message.v)) \in {"complete", "delete"}
     /\ clientTasks # <<>>) =>
    \E k \in {ClaimedTarget(message.v, clientTasks)} :
      IF ClaimedRule(Lowered(message.v)) = "complete"
      THEN /\ toolCalls = <<ToolCall("complete_task", IdInput(Str(clientTasks[k].id)))>>
           /\ response = MarkedReply(clientTasks[k].title.v)
      ELSE /\ toolCalls = <<ToolCall("delete_task", IdInput(Str(clientTasks[k].id)))>>
           /\ response = DeletedReply(clientTasks[k].title.v)

\* the step executes the invocation the step before it executed
RetryStep == MemoryStep /\ next > 1 /\ toolCalls[next] = toolCalls[next - 1]

RefStep(tasks, call, result) ==
  IF call.name = "add_task"
  THEN IF result.success THEN <<result.data>> \o tasks ELSE tasks
  ELSE IF call.name = "complete_task" /\ call.input.defined
  THEN [i \in 1..Len(tasks) |->
          IF call.input.task_id.t = "string" /\ tasks[i].id = call.input.task_id.v
             /\ \A j \in 1..(i - 1) : tasks[j].id # tasks[i].id
          THEN [tasks[i] EXCEPT !.completed = ~@]
          ELSE tasks[i]]
  ELSE IF call.name = "delete_task" /\ call.input.defined
  THEN SelectSeq(tasks, LAMBDA t :
                   call.input.task_id.t # "string" \/ t.id # call.input.task_id.v)
  ELSE tasks

\* the collection after the first k invocations of the batch
RECURSIVE RefFold(_)
RefFold(k) ==
  IF k = 0 THEN clientTasks
  ELSE RefStep(RefFold(k - 1), toolCalls[k], toolResults[k])

\* whether an invocation succeeds on a collection
RefSucceeds(tasks, call) ==
  /\ call.name \in {"add_task", "complete_task", "delete_task"}
  /\ call.input.defined
  /\ IF call.name = "add_task"
     THEN Truthy(call.input.title)
     ELSE /\ call.input.task_id.t = "string"
          /\ \E i \in 1..Len(tasks) : tasks[i].id = call.input.task_id.v

InLoop == pc \in {"loop", "done"} /\ status # 400 /\ route \in {"agentMemory", "agentStore"}

FailsOn(tasks, call) ==
  \/ call.name \notin {"add_task", "complete_task", "delete_task"}
  \/ ~call.input.defined
  \/ call.name = "add_task" /\ ~Truthy(call.input.title)
  \/ call.name # "add_task" /\ ~Truthy(call.input.task_id)
  \/ call.name # "add_task" /\ FindIndex(tasks, call.input.task_id) = 0

\* the collection invocation i is executed on
SeenBy(i) == IF route = "agentMemory" THEN RefFold(i - 1) ELSE <<>>

\* C10: Partial-failure semantics.  An invocation that fails yields a
\* success=false result with an error and does not stop the batch: the
\* response holds one result per invocation, and every delete of the batch
\* has taken effect, whatever failed before it.
C10_PartialFailure ==
  (pc = "done" /\ status = 200) =>
    /\ Len(toolResults) = Len(toolCalls)
    /\ \A i \in 1..Len(toolCalls) :
         FailsOn(SeenBy(i), toolCalls[i]) =>
           ~toolResults[i].success /\ toolResults[i].error # ""
    /\ route = "agentMemory" =>
         \A i \in 1..Len(toolCalls) :
           (toolCalls[i].name = "delete_task" /\ toolCalls[i].input.defined
              /\ \A j \in (i + 1)..Len(toolCalls) : toolCalls[j].name # "add_task") =>
             FindIndex(updatedTasks, toolCalls[i].input.task_id) = 0

\* three deletes of which one names an identifier already gone: that one
\* failed, the one after it succeeded and both other tasks are deleted
C10_Witness ==
  /\ pc = "done" /\ status = 200 /\ route = "agentMemory" /\ Len(toolCalls) = 3
  /\ \A i \in 1..3 : toolCalls[i].name = "delete_task"
  /\ toolResults[1].success /\ ~toolResults[2].success /\ toolResults[3].success
  /\ Len(clientTasks) = 2 /\ updatedTasks = <<>>

\* a tool loop (of either agent endpoint) executes invocation next in this step
LoopStep == pc = "loop" /\ next <= Len(toolCalls) /\ next' = next + 1

\* the collection the tool loop's next invocation is executed on
CurrentCollection ==
  IF route = "agentMemory" THEN updatedTasks ELSE getTasks(ServerHasWindow, localStorage)

\* a complete or delete invocation whose identifier no task of the collection has
AbsentId(call, tasks) ==
  /\ call.name \in {"complete_task", "delete_task"}
  /\ call.input.defined
  /\ IsString(call.input.task_id) /\ call.input.task_id.v # ""
  /\ call.input.task_id.v \notin IdsOf(tasks)

\* C11: Not-found is non-fatal.  A delete or complete invocation whose
\* identifier is absent from the current collection returns success=false with
\* the not-found error message and leaves the collection (and the store) as it
\* was.
C11_NotFoundNonFatal ==
  [][(LoopStep /\ AbsentId(toolCalls[next], CurrentCollection)) =>
       /\ ~toolResults'[next].success
       /\ toolResults'[next].error = NotFound(toolCalls[next].input.task_id)
       /\ updatedTasks' = updatedTasks
       /\ localStorage' = localStorage]_vars

\* a delete and a complete of an identifier absent from a non-empty collection
\* have been executed: both failed and the collection is as it was received
C11_Witness ==
  /\ route = "agentMemory" /\ next = 3 /\ clientTasks # <<>>
  /\ toolCalls[1].name = "delete_task" /\ toolCalls[2].name = "complete_task"
  /\ AbsentId(toolCalls[1], clientTasks) /\ AbsentId(toolCalls[2], clientTasks)
  /\ ~toolResults[1].success /\ ~toolResults[2].success
  /\ updatedTasks = clientTasks

\* the required field of an invocation is missing or is not a string
InvalidField(call) ==
  /\ call.input.defined
  /\ \/ call.name = "add_task" /\ ~IsString(call.input.title)
     \/ call.name \in {"complete_task", "delete_task"} /\ ~IsString(call.input.task_id)

HasInk(s) == \E i \in 1..Len(s) : ~IsSpace(Char(s, i))

\* no pattern of extractTitle captures a visible character from the text
NothingExtractable(u) ==
  \E m1 \in {Pattern1(u)} :
    IF m1.ok THEN ~HasInk(m1.cap)
    ELSE \E m2 \in {Pattern2(u)} : ~m2.ok \/ ~HasInk(m2.cap)

\* C13: The resolver never emits an add invocation with an empty title.  An
\* add/create utterance yields either zero invocations and the reply asking
\* for a title, or one add invocation whose title is a piece of the text with
\* a visible character; it is the former whenever no non-empty title can be
\* extracted (no pattern matches, or the extracted text is only white space).
C13_NoEmptyTitle ==
  ResolvedAny =>
    /\ \A i \in 1..Len(toolCalls) :
         toolCalls[i].name = "add_task" =>
           IsString(toolCalls[i].input.title) /\ HasInk(toolCalls[i].input.title.v)
    /\ IsAddIntent(Lowered(message.v)) =>
         \/ toolCalls = <<>> /\ response = NeedTitleReply
         \/ /\ Len(toolCalls) = 1 /\ toolCalls[1].name = "add_task"
            /\ Includes(message.v, toolCalls[1].input.title.v)
            /\ ~NothingExtractable(message.v)

\* an add utterance whose extracted text is only white space has been
\* resolved: the patterns matched, yet the reply asks for a title
C13_Witness ==
  /\ ResolvedAny /\ IsAddIntent(Lowered(message.v))
  /\ Pattern1(message.v).ok /\ ~HasInk(Pattern1(message.v).cap)
  /\ toolCalls = <<>> /\ response = NeedTitleReply

\* a clearing verb
HasClearVerb(msg) ==
  Includes(msg, "clear") \/ Includes(msg, "delete all") \/ Includes(msg, "remove all")

\* the collection that comes with the request (the store-backed endpoint
\* receives none: its collection is the server's store)
RequestCollection ==
  IF route = "agentMemory" THEN clientTasks ELSE getTasks(ServerHasWindow, localStorage)

\* C14: Empty-collection guard.  When the collection is empty, an utterance
\* that resolves as a complete intent yields zero invocations and the
\* nothing-to-complete reply, and one that resolves as a delete intent yields
\* zero invocations and the nothing-to-delete reply.
C14_EmptyCollectionGuard ==
  (ResolvedAny /\ RequestCollection = <<>> /\ ~HasClearVerb(Lowered(message.v))) =>
    /\ ClaimedRule(Lowered(message.v)) = "complete" =>
         toolCalls = <<>> /\ response = NothingToCompleteReply
    /\ ClaimedRule(Lowered(message.v)) = "delete" =>
         toolCalls = <<>> /\ response = NothingToDeleteReply

\* "Delete that task" has been resolved against an empty collection
C14_Witness ==
  /\ Resolved /\ clientTasks = <<>> /\ message = Str("Delete that task")
  /\ toolCalls = <<>> /\ response = NothingToDeleteReply

\* a completion qualifier
HasCompletionQualifier(msg) == Includes(msg, "completed") \/ Includes(msg, "done")

ClarifyClearReply == "What would you like to clear? (e.g., 'Clear all completed tasks')"

\* C15: Ambiguous clear.  An input with a clearing verb ("clear", "delete
\* all", "remove all") and no completion qualifier ("completed", "done")
\* yields zero invocations and the reply asking what to clear, for every
\* collection.
C15_AmbiguousClear ==
  (ResolvedAny /\ HasClearVerb(Lowered(message.v))
     /\ ~HasCompletionQualifier(Lowered(message.v))) =>
    toolCalls = <<>> /\ response = ClarifyClearReply

\* one line per task, in collection order: done/pending marker and title
RECURSIVE ListingLines(_)
ListingLines(tasks) ==
  IF tasks = <<>> THEN ""
  ELSE (IF Head(tasks).completed THEN CheckMark ELSE Circle) \o " " \o Head(tasks).title.v
       \o (IF Len(tasks) > 1 THEN "\n" ELSE "") \o ListingLines(Tail(tasks))

\* the listing of a non-empty collection: total, pending and done counts, then
\* the lines
ListingOf(tasks) ==
  "You have **" \o ToString(Len(tasks)) \o " tasks** ("
  \o ToString(Len(PendingOf(tasks))) \o " pending, "
  \o ToString(Len(CompletedOf(tasks))) \o " done):\n\n" \o ListingLines(tasks)

\* C16: List intent is read-only.  An utterance resolved by the list rule
\* yields zero invocations and leaves the collection unchanged; on a
\* non-empty collection the reply lists every task once, in collection order,
\* with its done/pending marker, after the counts total = size of the
\* collection, done = number of completed tasks, pending = total - done.
C16_ListReadOnly ==
  (Resolved /\ ClaimedRule(Lowered(message.v)) = "list") =>
    /\ toolCalls = <<>>
    /\ updatedTasks = clientTasks
    /\ clientTasks # <<>> => response = ListingOf(clientTasks)

\* C17: Reply is fixed at resolution time.  From the moment the resolver has
\* returned, no step of the endpoint (an iteration of the tool loop, whatever
\* its outcome, or the response) changes the reply text or the list of
\* invocations: what is returned is what the resolver gave.
C17_ReplyFixed ==
  [][pc = "loop" => (response' = response /\ toolCalls' = toolCalls)]_vars

\* a response has been given for a batch in which an invocation failed and
\* another succeeded
C17_Witness ==
  /\ pc = "done" /\ status = 200 /\ response = "reply"
  /\ \E i, j \in 1..Len(toolResults) : toolResults[i].success /\ ~toolResults[j].success

\* C18: Result list shape.  After a batch is executed the list of results is
\* as long as the list of invocations and the i-th result carries the tool
\* name of the i-th invocation, whatever the invocations were (failing,
\* unknown-tool and exception-raising ones included).
C18_ResultListShape ==
  (pc = "done" /\ status = 200) =>
    /\ Len(toolResults) = Len(toolCalls)
    /\ \A i \in 1..Len(toolCalls) : toolResults[i].toolName = toolCalls[i].name

\* a batch of an unknown tool, an invocation without input (its execution
\* raises) and a delete has been executed
C18_Witness ==
  /\ pc = "done" /\ status = 200 /\ Len(toolCalls) = 3
  /\ toolCalls[1].name = "archive_task"
  /\ ~toolCalls[2].input.defined
  /\ toolCalls[3].name = "delete_task" /\ toolCalls[3].input.defined
  /\ toolResults[1].error = UnknownTool("archive_task")
  /\ toolResults[2].error \in {UndefinedInputError("task_id"), DestructureError("task_id")}
  /\ Len(toolResults) = 3

\* the keywords of the rules
RuleKeywords ==
  {"clear", "delete all", "remove all", "add", "create", "complete", "done", "finish",
   "mark", CheckMark, "delete", "remove", "show", "list", "what", "how many", "view",
   "display"}

HasKeyword(msg) == \E k \in RuleKeywords : Includes(msg, k)

\* C19: The resolver is total.  Every request with a message is resolved, by
\* either endpoint and with any collection, to one result whose reply is not
\* empty, and never to an error; an input with none of the rule keywords gets
\* the usage hint and zero invocations.
C19_ResolverTotal ==
  /\ (pc # "idle" /\ Truthy(message) /\ IsString(message)) =>
       ResolvedAny /\ status # 500 /\ error = "" /\ response # ""
  /\ (ResolvedAny /\ ~HasKeyword(Lowered(message.v))) =>
       response = UsageReply /\ toolCalls = <<>>

\* a text with no keyword has been resolved against a non-empty collection
C19_Witness ==
  /\ Resolved /\ clientTasks # <<>> /\ message = Str("hello   milk")
  /\ response = UsageReply /\ toolCalls = <<>>

C21_ListIdempotent ==
  (ResolvedAny /\ Lowered(message.v) = "show my tasks") =>
    /\ toolCalls = <<>>
    /\ ObservedRule = "list"
    /\ response = mockClaudeResponse("show my tasks", ServerHasWindow, ServerStorage).response
    /\ route = "agentMemory" => updatedTasks = clientTasks
    /\ localStorage = ServerStorage

\* the response to a later "Show my tasks" sent with a collection is ready
C21_Witness ==
  /\ Resolved /\ pc = "done" /\ status = 200 /\ now = MaxClock
  /\ message = Str("Show my tasks") /\ Len(clientTasks) = 2

\* an invocation the executor accepts on the given collection: a known tool
\* with a non-empty string title, or with the identifier of a task present
Executable(call, tasks) ==
  /\ call.name \in {"add_task", "complete_task", "delete_task"}
  /\ call.input.defined
  /\ IF call.name = "add_task"
     THEN IsString(call.input.title) /\ call.input.title.v # ""
     ELSE IsString(call.input.task_id) /\ call.input.task_id.v \in IdsOf(tasks)

\* C22: Resolver output is always executable.  Every invocation the resolver
\* emits has a known tool name and a valid input (a non-empty string title, or
\* the identifier of a task of the collection it resolved over), and every
\* result of executing the batch is success=true.
C22_OutputExecutable ==
  ResolvedAny =>
    /\ \A i \in 1..Len(toolCalls) :
         Executable(toolCalls[i], getTasks(ServerHasWindow, localStorage))
    /\ \A i \in 1..Len(toolResults) : toolResults[i].success

\* an add emitted by the resolver has been executed on a non-empty collection
C22_Witness ==
  /\ Resolved /\ pc = "done" /\ clientTasks # <<>>
  /\ Len(toolCalls) = 1 /\ Len(toolResults) = 1
  /\ toolResults[1].success /\ Len(updatedTasks) = Len(clientTasks) + 1

\* an invocation of a tool that is not add, complete or delete
UnknownName(call) == call.name \notin {"add_task", "complete_task", "delete_task"}

\* C23: Unknown tool name.  Executing an invocation whose tool name is not
\* add, complete or delete pushes a result with success=false and the error
\* "Unknown tool: <name>"; the loop goes on to the next invocation (nothing is
\* raised) and the collection and the store are left unchanged.
C23_UnknownTool ==
  [][(LoopStep /\ UnknownName(toolCalls[next])) =>
       /\ toolResults'[next] =
            ToolResult(toolCalls[next].name,
                       [success |-> FALSE, data |-> NoData,
                        error |-> "Unknown tool: " \o toolCalls[next].name])
       /\ updatedTasks' = updatedTasks
       /\ localStorage' = localStorage
       /\ pc' = "loop" /\ status' = status /\ error' = error]_vars

\* an unknown tool has been executed on a non-empty collection and the
\* invocation after it has been executed too
C23_Witness ==
  /\ route = "agentMemory" /\ clientTasks # <<>> /\ next = 3
  /\ UnknownName(toolCalls[1]) /\ ~toolResults[1].success
  /\ toolCalls[2].name = "delete_task" /\ toolResults[2].success

\* C24: Title bounds.  In every state reachable through the main page's add
\* form every task of the stored collection has a title of at least 1 and at
\* most 200 characters.
C24_TitleBounds ==
  \A i \in 1..Len(getTasks(BrowserHasWindow, localStorage)) :
    \E t \in {getTasks(BrowserHasWindow, localStorage)[i].title} :
      IsString(t) /\ Len(t.v) >= 1 /\ Len(t.v) <= MaxTitleLength

\* the collection the task list page loads when it mounts
PersistedTasks == getTasks(BrowserHasWindow, localStorage)

\* the chat page receives the answer to a request that went well
ChatAnswered == pc = "done" /\ status = 200 /\ loading /\ ~loading'

\* C25: when the chat page has received the response to a message that
\* resolved to an add, a complete or a delete, the persisted collection the
\* task list page shows reflects every invocation that succeeded: the added
\* task is present, the completed task is flagged, the deleted task is gone.
C25_ChatEffect ==
  [][ChatAnswered =>
       \A i \in 1..Len(toolResults) :
          toolResults[i].success =>
            LET stored == getTasks(BrowserHasWindow, localStorage')
                k == FindIndex(stored, Str(toolResults[i].data.id))
            IN CASE toolResults[i].toolName = "add_task" ->
                      k # 0 /\ stored[k] = toolResults[i].data
                 [] toolResults[i].toolName = "complete_task" ->
                      k # 0 /\ stored[k].completed = toolResults[i].data.completed
                 [] toolResults[i].toolName = "delete_task" -> k = 0
                 [] OTHER -> TRUE]_vars

\* the list without its k-th element
Without(tasks, k) == SubSeq(tasks, 1, k - 1) \o SubSeq(tasks, k + 1, Len(tasks))

\* the positions at which two lists of one length differ
Changed(before, after) == {k \in 1..Len(before) : after[k] # before[k]}

ExecutorStep ==
  \/ pc = "loop" /\ route = "agentStore" /\ next' = next + 1
  \/ pc = "idle" /\ route' = "tools" /\ status' = 200

\* C27: Store-backed executor consistency.  Whenever executeTool returns
\* success=true for add_task, the task returned is the first element of the
\* next getTasks(); whenever it returns success=true for complete_task, the
\* stored task's completed flag is the negation of what it was.  This holds
\* in the environment of the route handlers, where there is no browser storage.
C27_ExecutorConsistency ==
  [][(ExecutorStep /\ toolResults'[Len(toolResults')].success) =>
       LET call == toolCalls'[Len(toolResults')]
           data == toolResults'[Len(toolResults')].data
           before == getTasks(ServerHasWindow, localStorage)
           after == getTasks(ServerHasWindow, localStorage')
       IN CASE call.name = "add_task" ->
                 Len(after) > 0 /\ after[1] = data
            [] call.name = "complete_task" ->
                 LET i == FindIndex(before, call.input.task_id)
                     j == FindIndex(after, call.input.task_id)
                 IN i # 0 /\ j # 0 /\ after[j].completed = ~before[i].completed
            [] OTHER -> TRUE]_vars

\* a message that is missing, empty or not a string
BadMessage(m) == m.t # "string" \/ m.v = ""

\* an agent endpoint receives the request whose message is m
Receives(m) ==
  pc \in {"idle", "sent"} /\ route' \in {"agentMemory", "agentStore"} /\ message' = m
  /\ pc' # pc

Alternates ==
  /\ \A k \in 1..Len(messages) :
       messages[k].role = (IF k % 2 = 1 THEN "user" ELSE "assistant")
  /\ loading <=> Len(messages) % 2 = 1

\* what one step may do to the conversation: nothing, or append the message
\* of a submit that was accepted, or append the answer to the request in flight
CycleStep ==
  \/ messages' = messages /\ loading' = loading
  \/ /\ ~loading /\ loading'
     /\ \E input \in ChatInputs :
          trim(input) # "" /\ messages' = Append(messages, UserMessage(input))
  \/ /\ loading /\ ~loading'
     /\ \E content \in {response, ErrorText} :
          messages' = Append(messages, AssistantMessage(content))

\* C29: Chat page request cycle.  A submit is ignored while a request is in
\* flight or when the input is blank; every accepted submit appends exactly
\* one user message and is eventually followed by exactly one assistant
\* message, the reply or the fixed error text, after which loading is false;
\* messages are appended in the order of submission.
C29_ChatCycle ==
  /\ []Alternates
  /\ [][CycleStep]_vars
  /\ (loading ~> ~loading)

\* two exchanges are over: the first request failed, the second was answered
C29_Witness ==
  /\ Len(messages) = 4 /\ ~loading
  /\ messages[1] = UserMessage("Add milk")
  /\ messages[2] = AssistantMessage(ErrorText)
  /\ messages[3] = UserMessage("Complete milk")
  /\ messages[4].role = "assistant" /\ messages[4].content # ErrorText

\* C30: Main page view/store consistency.  After mount and any sequence of
\* handleAdd, handleToggle and handleDelete, the task list of the page state
\* equals the persisted collection.
C30_ViewStoreConsistency ==
  mounted => pageTasks = getTasks(BrowserHasWindow, localStorage)

\* the page shows two tasks, the older of them completed
C30_Witness ==
  /\ mounted /\ Len(pageTasks) = 2
  /\ pageTasks[2].completed /\ ~pageTasks[1].completed
  /\ pageTasks = getTasks(BrowserHasWindow, localStorage)

====
